---- MODULE Spec2Model ----
(***************************************************************************)
(* A model of ipfshttpclient/filescanner.py: the matchers (DummyMatcher,   *)
(* GlobMatcher, ReMatcher, MetaMatcher, NoRecusionAdapterMatcher), the     *)
(* spec normalizer matcher_from_spec, and the traversal driver `walk`.     *)
(*                                                                         *)
(* Strings are sequences of one-character strings, so that str.split,      *)
(* str.startswith, `sep in path` and regular-expression matching are       *)
(* computed character by character as the code does.  Paths use the POSIX  *)
(* separator (os.path.sep = "/", os.path.altsep = None).                   *)
(***************************************************************************)
EXTENDS Integers, Sequences, FiniteSets, TLC

(***************************************************************************)
(* Bounds of the model.                                                    *)
(***************************************************************************)
\* Largest number of labels joined into a generated glob pattern.
MaxPatLabels == 2
\* Largest number of labels of a path handed to a matcher in MatchSpec.
MaxDepth == 3
\* Largest number of close() calls made on one traversal.
MaxCloses == 2

(***************************************************************************)
(* Strings                                                                 *)
(***************************************************************************)
sep == "/"
dot == <<".">>
dblstar == <<"*", "*">>

\* str.startswith
StartsWith(s, p) ==
    /\ Len(p) <= Len(s)
    /\ SubSeq(s, 1, Len(p)) = p

\* str.endswith
EndsWith(s, p) ==
    /\ Len(p) <= Len(s)
    /\ SubSeq(s, Len(s) - Len(p) + 1, Len(s)) = p

\* `c in s` for a one-character c
HasChar(s, c) == \E i \in 1..Len(s) : s[i] = c

\* `p in s` for a substring p
Contains(s, p) ==
    \E i \in 1..(Len(s) - Len(p) + 1) : SubSeq(s, i, i + Len(p) - 1) = p

\* str.split(sep): always at least one element, empty labels are kept
RECURSIVE Split(_)
Split(s) ==
    IF ~HasChar(s, sep) THEN <<s>>
    ELSE LET i == CHOOSE k \in 1..Len(s) :
                     s[k] = sep /\ \A j \in 1..(k - 1) : s[j] # sep
         IN  <<SubSeq(s, 1, i - 1)>> \o Split(SubSeq(s, i + 1, Len(s)))

\* sep.join(parts)
RECURSIVE Join(_)
Join(parts) ==
    IF Len(parts) = 0 THEN <<>>
    ELSE IF Len(parts) = 1 THEN parts[1]
    ELSE parts[1] \o <<sep>> \o Join(Tail(parts))

\* os.path.join(dirpath, filename) for a relative filename
PathJoin(dirpath, filename) ==
    IF Len(dirpath) = 0 THEN filename
    ELSE IF dirpath[Len(dirpath)] = sep THEN dirpath \o filename
    ELSE dirpath \o <<sep>> \o filename

(***************************************************************************)
(* Regular expressions.  A compiled expression is a record                 *)
(*   ndot : the expression starts with the lookahead (?![.])               *)
(*   items: atoms, each a literal character, ANY (".") or a character      *)
(*          class ([...] or [^...]), maybe starred                         *)
(*   end  : the expression ends with \Z                                    *)
(* ReMatchFrom is re.Pattern.match: anchored at the start of the string   *)
(* and, unless the expression itself ends with \Z, free at its end.        *)
(***************************************************************************)
ANY == "ANY"

Lit(c) == [ch |-> c, star |-> FALSE]
Star(c) == [ch |-> c, star |-> TRUE]
Regex(items, end) == [isNone |-> FALSE, ndot |-> FALSE, items |-> items, end |-> end]

\* A character class: the characters of `set`, or with neg all the others
CLASS == "CLASS"
Class(neg, set) == [ch |-> CLASS, star |-> FALSE, neg |-> neg, set |-> set]

\* The atom accepts the character c
AtomOk(atom, c) ==
    \/ atom.ch = ANY
    \/ atom.ch = c
    \/ atom.ch = CLASS /\ ((c \in atom.set) # atom.neg)

RECURSIVE ReMatchFrom(_, _, _, _, _)
ReMatchFrom(items, i, s, j, end) ==
    IF i > Len(items) THEN (~end \/ j > Len(s))
    ELSE IF items[i].star
         THEN \/ ReMatchFrom(items, i + 1, s, j, end)
              \/ /\ j <= Len(s)
                 /\ AtomOk(items[i], s[j])
                 /\ ReMatchFrom(items, i, s, j + 1, end)
         ELSE /\ j <= Len(s)
              /\ AtomOk(items[i], s[j])
              /\ ReMatchFrom(items, i + 1, s, j + 1, end)

\* pattern.match(s) is not None
ReMatch(re, s) ==
    /\ re.ndot => ~StartsWith(s, dot)
    /\ ReMatchFrom(re.items, 1, s, 1, re.end)

\* The characters strings are made of, in the order of their code points
Chars ==
    <<"!", "*", "-", ".", "/", "?", "[", "]",
      "a", "b", "c", "d", "e", "h", "i", "n", "r", "t", "x", "y">>

\* ord(c)
Ord(c) == CHOOSE i \in 1..Len(Chars) : Chars[i] = c

\* str.find(c, k): the first index from k on that holds c, Len(s) + 1 if none
Find(s, c, k) ==
    IF \E m \in k..Len(s) : s[m] = c
    THEN CHOOSE m \in k..Len(s) : s[m] = c /\ \A l \in k..(m - 1) : s[l] # c
    ELSE Len(s) + 1

\* fnmatch.translate at "[": the index j of the "]" that closes the class
\* opening before index i, Len(pat) + 1 if nothing closes it.  A "!" and a
\* "]" right behind the "[" belong to the class.
ClassClose(pat, i) ==
    LET j1 == IF i <= Len(pat) /\ pat[i] = "!" THEN i + 1 ELSE i
        j2 == IF j1 <= Len(pat) /\ pat[j1] = "]" THEN j1 + 1 ELSE j1
    IN  Find(pat, "]", j2)

\* One character of the text between "[" and "]" as the expression holds
\* it: hyphen is TRUE for a "-" that stands between two chunks (a range),
\* FALSE for every other character (a "-" inside a chunk is escaped)
Tok(c, hyphen) == [c |-> c, hyphen |-> hyphen]

\* The chunks of a class text that holds "-": the text is cut at every "-"
\* found from k on, the search going on three characters further; an empty
\* last chunk gives its "-" to the chunk before
RECURSIVE ChunksFrom(_, _, _, _)
ChunksFrom(stuff, start, k, chunks) ==
    LET m == Find(stuff, "-", k)
    IN  IF m <= Len(stuff)
        THEN ChunksFrom(stuff, m + 1, m + 3,
                        Append(chunks, SubSeq(stuff, start, m - 1)))
        ELSE IF start <= Len(stuff)
             THEN Append(chunks, SubSeq(stuff, start, Len(stuff)))
             ELSE [chunks EXCEPT ![Len(chunks)] = @ \o <<"-">>]

\* "Remove empty ranges": from the last chunk down, a chunk whose first
\* character lies before the last character of the chunk in front of it
\* is merged into that chunk, both characters dropped
RECURSIVE RemoveEmptyRanges(_, _)
RemoveEmptyRanges(chunks, k) ==
    IF k < 2 THEN chunks
    ELSE IF Ord(chunks[k - 1][Len(chunks[k - 1])]) > Ord(chunks[k][1])
         THEN RemoveEmptyRanges(
                  SubSeq(chunks, 1, k - 2)
                  \o <<SubSeq(chunks[k - 1], 1, Len(chunks[k - 1]) - 1)
                       \o Tail(chunks[k])>>
                  \o SubSeq(chunks, k + 1, Len(chunks)),
                  k - 1)
         ELSE RemoveEmptyRanges(chunks, k - 1)

\* "-".join(chunks), as tokens
RECURSIVE JoinChunks(_)
JoinChunks(chunks) ==
    IF Len(chunks) = 0 THEN <<>>
    ELSE LET head == [i \in 1..Len(chunks[1]) |-> Tok(chunks[1][i], FALSE)]
         IN  IF Len(chunks) = 1 THEN head
             ELSE head \o <<Tok("-", TRUE)>> \o JoinChunks(Tail(chunks))

\* The text between "[" and "]" as fnmatch.translate hands it to re
ClassStuff(stuff) ==
    IF ~HasChar(stuff, "-")
    THEN [i \in 1..Len(stuff) |-> Tok(stuff[i], FALSE)]
    ELSE JoinChunks(
             LET chunks == ChunksFrom(stuff, 1, IF stuff[1] = "!" THEN 3 ELSE 2,
                                      <<>>)
             IN  RemoveEmptyRanges(chunks, Len(chunks)))

\* The characters of a class as re reads it: a character followed by a
\* range hyphen and a further character is the range between the two, a
\* range hyphen at the end is the character "-"
RECURSIVE ClassSet(_, _)
ClassSet(toks, k) ==
    IF k > Len(toks) THEN {}
    ELSE IF k + 1 <= Len(toks) /\ toks[k + 1].hyphen
         THEN IF k + 2 > Len(toks) THEN {toks[k].c, "-"}
              ELSE {Chars[o] : o \in Ord(toks[k].c)..Ord(toks[k + 2].c)}
                   \cup ClassSet(toks, k + 3)
         ELSE {toks[k].c} \cup ClassSet(toks, k + 1)

\* The atom for the class text: (?!) for an empty text, "." for the text
\* "!", [^...] for a text that starts with "!", [...] otherwise
ClassAtom(stuff) ==
    LET toks == ClassStuff(stuff)
    IN  IF Len(toks) = 0 THEN Class(FALSE, {})
        ELSE IF Len(toks) = 1 /\ toks[1].c = "!" THEN Lit(ANY)
        ELSE IF toks[1].c = "!" THEN Class(TRUE, ClassSet(Tail(toks), 1))
        ELSE Class(FALSE, ClassSet(toks, 1))

\* The atoms of fnmatch.translate(pat) from index i on: "*" any run (a "*"
\* behind a "*" adds nothing), "?" one character, "[...]" a character
\* class ("[" itself when nothing closes it), anything else itself
RECURSIVE FnAtoms(_, _)
FnAtoms(pat, i) ==
    IF i > Len(pat) THEN <<>>
    ELSE IF pat[i] = "*"
         THEN (IF i > 1 /\ pat[i - 1] = "*" THEN <<>> ELSE <<Star(ANY)>>)
              \o FnAtoms(pat, i + 1)
    ELSE IF pat[i] = "?" THEN <<Lit(ANY)>> \o FnAtoms(pat, i + 1)
    ELSE IF pat[i] = "["
         THEN LET j == ClassClose(pat, i + 1)
              IN  IF j > Len(pat) THEN <<Lit("[")>> \o FnAtoms(pat, i + 1)
                  ELSE <<ClassAtom(SubSeq(pat, i + 1, j - 1))>>
                       \o FnAtoms(pat, j + 1)
    ELSE <<Lit(pat[i])>> \o FnAtoms(pat, i + 1)

\* fnmatch.translate(label); the result is wrapped as (?s:...)\Z
FnTranslate(label) == Regex(FnAtoms(label, 1), TRUE)

(***************************************************************************)
(* Results of a call: Python's True and False, or the exception raised.    *)
(***************************************************************************)
RTrue == "True"
RFalse == "False"
NoError == "None"
IndexError == "IndexError"
AssertionError == "AssertionError"
NotImplementedError == "NotImplementedError"
MatcherError == "MatcherError"

PyBool(b) == IF b THEN RTrue ELSE RFalse

\* any(...) over results computed left to right: the first result that is
\* not False decides (True, or the exception raised on the way)
PyAny(rs) ==
    IF \A i \in 1..Len(rs) : rs[i] = RFalse THEN RFalse
    ELSE rs[CHOOSE i \in 1..Len(rs) :
                rs[i] # RFalse /\ \A j \in 1..(i - 1) : rs[j] = RFalse]

(***************************************************************************)
(* GlobMatcher                                                             *)
(***************************************************************************)
\* The entry of _pat for a "**" label (None in the code)
NoneLabel == [isNone |-> TRUE, ndot |-> FALSE, items |-> <<>>, end |-> FALSE]

\* One compiled label: fnmatch.translate, with (?![.]) in front when
\* period_special is set and the label does not start with "."
CompileLabel(label, period_special) ==
    IF period_special /\ ~StartsWith(label, dot)
    THEN [FnTranslate(label) EXCEPT !.ndot = TRUE]
    ELSE FnTranslate(label)

\* The loop over pat.split(sep): the labels in order, the first offending
\* label raising
RECURSIVE CompileLabels(_, _)
CompileLabels(labels, period_special) ==
    IF Len(labels) = 0 THEN [err |-> NoError, pat |-> <<>>]
    ELSE LET label == Head(labels)
             rest  == CompileLabels(Tail(labels), period_special)
         IN  IF Len(label) < 1 \/ label = dot THEN rest
             ELSE IF label = dot \o dot
                  THEN [err |-> AssertionError, pat |-> <<>>]
             ELSE IF label # dblstar /\ Contains(label, dblstar)
                  THEN [err |-> NotImplementedError, pat |-> <<>>]
             ELSE IF rest.err # NoError THEN rest
             ELSE IF label = dblstar
                  THEN [err |-> NoError, pat |-> <<NoneLabel>> \o rest.pat]
             ELSE [err |-> NoError,
                   pat |-> <<CompileLabel(label, period_special)>> \o rest.pat]

NoMatcher == [cls |-> "None"]
Built(m) == [err |-> NoError, m |-> m]
Raised(e) == [err |-> e, m |-> NoMatcher]

\* GlobMatcher.__init__
GlobMatcher(pat, period_special) ==
    IF StartsWith(pat, <<sep>>) THEN Raised(AssertionError)
    ELSE LET c == CompileLabels(Split(pat), period_special)
         IN  IF c.err # NoError THEN Raised(c.err)
             ELSE Built([cls            |-> "GlobMatcher",
                         period_special |-> period_special,
                         pat            |-> c.pat,
                         dir_only       |-> EndsWith(pat, <<sep>>)])

\* GlobMatcher.should_descend, from label idx (counted from 0) on
RECURSIVE GlobDescendFrom(_, _, _)
GlobDescendFrom(m, labels, idx) ==
    IF idx >= Len(labels) THEN RTrue
    ELSE IF idx >= Len(m.pat) THEN IndexError
    ELSE IF m.pat[idx + 1].isNone THEN RTrue
    ELSE IF idx = Len(m.pat) - 1 THEN RFalse
    ELSE IF ~ReMatch(m.pat[idx + 1], labels[idx + 1]) THEN RFalse
    ELSE GlobDescendFrom(m, labels, idx + 1)

GlobShouldDescend(m, path) == GlobDescendFrom(m, Split(path), 0)

\* The first loop of _match: the concrete labels before a recursion marker.
\* Gives the return value when the loop returns, and the indices otherwise.
RECURSIVE MatchInitial(_, _, _, _, _)
MatchInitial(m, labels, idx_pat, idx_path, is_dir) ==
    IF idx_pat < Len(m.pat) /\ ~m.pat[idx_pat + 1].isNone
    THEN IF idx_path >= Len(labels)
         THEN [ret |-> PyBool(is_dir), idx_pat |-> idx_pat, idx_path |-> idx_path]
         ELSE IF ~ReMatch(m.pat[idx_pat + 1], labels[idx_path + 1])
         THEN [ret |-> RFalse, idx_pat |-> idx_pat, idx_path |-> idx_path]
         ELSE MatchInitial(m, labels, idx_pat + 1, idx_path + 1, is_dir)
    ELSE [ret |-> NoError, idx_pat |-> idx_pat, idx_path |-> idx_path]

\* GlobMatcher._match; indices are counted from 0 as in the code
RECURSIVE GlobMatch(_, _, _, _, _)
RECURSIVE MatchRecursion(_, _, _, _, _)
GlobMatch(m, labels, idx_pat, idx_path, is_dir) ==
    LET w == MatchInitial(m, labels, idx_pat, idx_path, is_dir)
    IN  IF w.ret # NoError THEN w.ret
        ELSE IF w.idx_pat = Len(m.pat)
        THEN \* self._pat[idx_pat - 1]: index -1 of an empty list
             IF Len(m.pat) = 0 THEN IndexError
             ELSE IF m.pat[IF w.idx_pat = 0 THEN Len(m.pat) ELSE w.idx_pat].isNone
             THEN IF ~m.period_special THEN RTrue
                  ELSE IF w.idx_path >= Len(labels) THEN IndexError
                  ELSE PyBool(~StartsWith(labels[w.idx_path + 1], dot))
             ELSE PyBool(w.idx_path = Len(labels))
        ELSE MatchRecursion(m, labels, w.idx_pat + 1, w.idx_path, is_dir)

\* The second loop of _match without its break: the recursion marker also
\* runs over labels that start with "."
RECURSIVE MatchRecursionNoBreak(_, _, _, _, _)
MatchRecursionNoBreak(m, labels, idx_pat, idx_path, is_dir) ==
    IF idx_path >= Len(labels) THEN RFalse
    ELSE LET r == GlobMatch(m, labels, idx_pat, idx_path, is_dir)
         IN  IF r # RFalse THEN r
             ELSE MatchRecursionNoBreak(m, labels, idx_pat, idx_path + 1, is_dir)

\* The second loop of _match: retry the rest of the pattern at every
\* following label, stopping behind a label that starts with "."
MatchRecursion(m, labels, idx_pat, idx_path, is_dir) ==
    IF idx_path >= Len(labels) THEN RFalse
    ELSE LET r == GlobMatch(m, labels, idx_pat, idx_path, is_dir)
         IN  IF r # RFalse THEN r
             ELSE IF m.period_special /\ StartsWith(labels[idx_path + 1], dot)
             THEN RFalse
             ELSE MatchRecursion(m, labels, idx_pat, idx_path + 1, is_dir)

\* GlobMatcher.should_report without the test of _dir_only
GlobReportAnyKind(m, path, is_dir) == GlobMatch(m, Split(path), 0, 0, is_dir)

GlobShouldReport(m, path, is_dir) ==
    IF m.dir_only /\ ~is_dir THEN RFalse
    ELSE GlobMatch(m, Split(path), 0, 0, is_dir)

(***************************************************************************)
(* DummyMatcher, ReMatcher, MetaMatcher, NoRecusionAdapterMatcher          *)
(***************************************************************************)
DUMMY_MATCHER == [cls |-> "DummyMatcher"]
ReMatcher(re) == [cls |-> "ReMatcher", pat |-> re]
MetaMatcher(children) == [cls |-> "MetaMatcher", children |-> children]
NoRecusionAdapterMatcher(child) ==
    [cls |-> "NoRecusionAdapterMatcher", child |-> child]

\* A matcher written by the caller: it answers from two tables and raises
\* on the paths of raise_descend / raise_report
UserMatcher(descend, report, raise_descend, raise_report) ==
    [cls |-> "UserMatcher", descend |-> descend, report |-> report,
     raise_descend |-> raise_descend, raise_report |-> raise_report]

ReShouldReport(m, path, is_dir) ==
    LET suffix == IF is_dir THEN <<sep>> ELSE <<>>
    IN  PyBool(ReMatch(m.pat, path \o suffix))

RECURSIVE should_descend(_, _)
RECURSIVE should_report(_, _, _)

\* MetaMatcher.should_descend / should_report
MetaShouldDescend(m, path) ==
    PyAny([i \in 1..Len(m.children) |-> should_descend(m.children[i], path)])

\* A MetaMatcher that reports what all of its children report
MetaReportAll(m, path, is_dir) ==
    PyBool(\A i \in 1..Len(m.children) :
               should_report(m.children[i], path, is_dir) = RTrue)

MetaShouldReport(m, path, is_dir) ==
    PyAny([i \in 1..Len(m.children) |-> should_report(m.children[i], path, is_dir)])

\* An adapter that asks the wrapped matcher whether to descend
NoRecDescendDelegates(m, path) == should_descend(m.child, path)

\* NoRecusionAdapterMatcher.should_descend / should_report
NoRecShouldDescend(m, path) == RFalse

NoRecShouldReport(m, path, is_dir) ==
    IF HasChar(path, sep) THEN RFalse
    ELSE should_report(m.child, path, is_dir)

\* matcher.should_descend(path), by the class of the matcher
should_descend(m, path) ==
    CASE m.cls = "DummyMatcher" -> RTrue
      [] m.cls = "GlobMatcher" -> GlobShouldDescend(m, path)
      [] m.cls = "ReMatcher" -> RTrue
      [] m.cls = "MetaMatcher" -> MetaShouldDescend(m, path)
      [] m.cls = "NoRecusionAdapterMatcher" -> NoRecShouldDescend(m, path)
      [] m.cls = "UserMatcher" ->
            IF path \in m.raise_descend THEN MatcherError
            ELSE PyBool(path \in m.descend)

\* matcher.should_report(path, is_dir=is_dir), by the class of the matcher
should_report(m, path, is_dir) ==
    CASE m.cls = "DummyMatcher" -> RTrue
      [] m.cls = "GlobMatcher" -> GlobShouldReport(m, path, is_dir)
      [] m.cls = "ReMatcher" -> ReShouldReport(m, path, is_dir)
      [] m.cls = "MetaMatcher" -> MetaShouldReport(m, path, is_dir)
      [] m.cls = "NoRecusionAdapterMatcher" -> NoRecShouldReport(m, path, is_dir)
      [] m.cls = "UserMatcher" ->
            IF path \in m.raise_report THEN MatcherError
            ELSE PyBool(path \in m.report)

(***************************************************************************)
(* matcher_from_spec.  A match spec is one of                              *)
(*   [kind |-> "None"]                      absent                         *)
(*   [kind |-> "str", pat |-> string]       a glob pattern                 *)
(*   [kind |-> "re", re |-> regex]          a compiled regular expression  *)
(*   [kind |-> "Matcher", m |-> matcher]    a matcher instance             *)
(*   [kind |-> "Iterable", items |-> specs] a collection of these          *)
(* The result is the matcher, or the exception GlobMatcher raised.         *)
(***************************************************************************)
SpecNone == [kind |-> "None"]
SpecStr(pat) == [kind |-> "str", pat |-> pat]
SpecRe(re) == [kind |-> "re", re |-> re]
SpecMatcher(m) == [kind |-> "Matcher", m |-> m]
SpecList(items) == [kind |-> "Iterable", items |-> items]

\* matcher_from_spec handing recursive=False on to the elements of a
\* collection, so that every element gets an adapter of its own
RECURSIVE FromSpecAdaptEach(_, _, _)
FromSpecAdaptEach(spec, period_special, recursive) ==
    LET r == CASE spec.kind = "None" -> Built(DUMMY_MATCHER)
               [] spec.kind = "str" -> GlobMatcher(spec.pat, period_special)
               [] spec.kind = "re" -> Built(ReMatcher(spec.re))
               [] spec.kind = "Iterable" ->
                    LET rs == [i \in 1..Len(spec.items) |->
                                  FromSpecAdaptEach(spec.items[i], period_special,
                                                    recursive)]
                    IN  IF \E i \in 1..Len(rs) : rs[i].err # NoError
                        THEN rs[CHOOSE i \in 1..Len(rs) :
                                    /\ rs[i].err # NoError
                                    /\ \A j \in 1..(i - 1) : rs[j].err = NoError]
                        ELSE Built(MetaMatcher([i \in 1..Len(rs) |-> rs[i].m]))
               [] spec.kind = "Matcher" -> Built(spec.m)
    IN  IF ~recursive /\ r.err = NoError
        THEN Built(NoRecusionAdapterMatcher(r.m))
        ELSE r

RECURSIVE matcher_from_spec(_, _, _)
matcher_from_spec(spec, period_special, recursive) ==
    IF ~recursive
    THEN LET r == matcher_from_spec(spec, period_special, TRUE)
         IN  IF r.err # NoError THEN r
             ELSE Built(NoRecusionAdapterMatcher(r.m))
    ELSE CASE spec.kind = "None" -> Built(DUMMY_MATCHER)
           [] spec.kind = "str" -> GlobMatcher(spec.pat, period_special)
           [] spec.kind = "re" -> Built(ReMatcher(spec.re))
           [] spec.kind = "Iterable" ->
                LET rs == [i \in 1..Len(spec.items) |->
                              matcher_from_spec(spec.items[i], period_special, recursive)]
                IN  IF \E i \in 1..Len(rs) : rs[i].err # NoError
                    THEN rs[CHOOSE i \in 1..Len(rs) :
                                /\ rs[i].err # NoError
                                /\ \A j \in 1..(i - 1) : rs[j].err = NoError]
                    ELSE Built(MetaMatcher([i \in 1..Len(rs) |-> rs[i].m]))
           [] spec.kind = "Matcher" -> Built(spec.m)

(***************************************************************************)
(* The traversal driver: class walk.                                       *)
(*                                                                         *)
(* The inputs of one traversal (chosen in Init, never changed):            *)
(*   directory        [kind |-> "path", str |-> string] or                 *)
(*                    [kind |-> "fd", fd |-> descriptor of the caller]     *)
(*   tree             the directory tree below the root: relative          *)
(*                    directory path |-> [dirs, files], in scandir order   *)
(*   match_spec, period_special, recursive, intermediate_dirs              *)
(*   HAVE_FWALK       whether the platform offers os.fwalk                 *)
(* The tree holds no symbolic links, so follow_symlinks changes nothing.   *)
(***************************************************************************)
VARIABLES
    directory, tree, match_spec, period_special, recursive,
    intermediate_dirs, HAVE_FWALK,
    state,      \* "new", "open" (constructed), "failed" (__init__ raised)
    init_err,   \* the exception __init__ raised
    matcher,    \* the matcher built by matcher_from_spec
    close_fd,   \* walk._close_fd
    gen,        \* the frame of the generator walk._walk
    fds,        \* the descriptor table of the process
    emitted,    \* the entries handed to the consumer so far, in order
    last,       \* what the consumer's last call gave
    errors,     \* the exceptions pulls have raised to the consumer, in order
    ncloses,    \* number of close() calls so far
    call        \* the last direct call of a matcher method (MatchSpec)

vars == <<directory, tree, match_spec, period_special, recursive,
          intermediate_dirs, HAVE_FWALK, state, init_err, matcher, close_fd,
          gen, fds, emitted, last, errors, ncloses, call>>

inputs == <<directory, tree, match_spec, period_special, recursive,
            intermediate_dirs, HAVE_FWALK>>

\* None, for a descriptor
NoFd == 0

(***************************************************************************)
(* Descriptors.  Every os.open gives a fresh descriptor; the table keeps   *)
(* who opened it, whether it is open and how often it was closed.          *)
(***************************************************************************)
OsOpen(table, owner) ==
    Append(table, [owner |-> owner, open |-> TRUE, closes |-> 0])

OsClose(table, fd) ==
    [table EXCEPT ![fd] = [@ EXCEPT !.open = FALSE, !.closes = @ + 1]]

(***************************************************************************)
(* os.walk / os.fwalk, top-down.  The iterator is a stack of the           *)
(* directories being walked; each keeps the list `dirnames` it yielded     *)
(* (which the driver prunes in place) and, for os.fwalk, its descriptor.   *)
(***************************************************************************)
NoWalk == [started |-> FALSE, stack |-> <<>>]

Listing(rel) == tree[rel]

\* walk_iter.close(), and what the iterator does when it is exhausted:
\* every descriptor still held by a level is closed
RECURSIVE WalkCloseLevels(_, _)
WalkCloseLevels(stack, table) ==
    IF Len(stack) = 0 THEN table
    ELSE LET f == stack[Len(stack)]
         IN  WalkCloseLevels(SubSeq(stack, 1, Len(stack) - 1),
                             IF f.fd = NoFd THEN table ELSE OsClose(table, f.fd))

\* One level entered: its descriptor is opened (os.fwalk) and it is listed
WalkEnter(w, table, rel, dirpath, use_fd) ==
    LET table2 == IF use_fd THEN OsOpen(table, "walk") ELSE table
        fd     == IF use_fd THEN Len(table2) ELSE NoFd
        frame  == [rel |-> rel, dirpath |-> dirpath,
                   dirnames |-> Listing(rel).dirs, fd |-> fd]
    IN  [done |-> FALSE,
         walk |-> [started |-> TRUE, stack |-> Append(w.stack, frame)],
         fds  |-> table2,
         dirpath |-> dirpath, filenames |-> Listing(rel).files, dirfd |-> fd]

\* next(walk_iter)
RECURSIVE WalkNext(_, _, _, _)
WalkNext(w, table, top, use_fd) ==
    IF ~w.started THEN WalkEnter(w, table, <<>>, top, use_fd)
    ELSE IF Len(w.stack) = 0
    THEN [done |-> TRUE, walk |-> w, fds |-> table,
          dirpath |-> <<>>, filenames |-> <<>>, dirfd |-> NoFd]
    ELSE LET n == Len(w.stack)
             f == w.stack[n]
         IN  IF Len(f.dirnames) = 0
             THEN WalkNext([w EXCEPT !.stack = SubSeq(w.stack, 1, n - 1)],
                           IF f.fd = NoFd THEN table ELSE OsClose(table, f.fd),
                           top, use_fd)
             ELSE LET name == Head(f.dirnames)
                  IN  WalkEnter([w EXCEPT !.stack[n].dirnames = Tail(f.dirnames)],
                                table, PathJoin(f.rel, name),
                                PathJoin(f.dirpath, name), use_fd)

\* A dirnames.remove that removes nothing
ListKeep(l, x) == l

\* list.remove(x): the first occurrence is dropped
ListRemove(l, x) ==
    IF \E i \in 1..Len(l) : l[i] = x
    THEN LET i == CHOOSE k \in 1..Len(l) :
                      l[k] = x /\ \A j \in 1..(k - 1) : l[j] # x
         IN  SubSeq(l, 1, i - 1) \o SubSeq(l, i + 1, Len(l))
    ELSE l

\* s.partition(p)[2]
PartitionTail(s, p) ==
    IF Contains(s, p)
    THEN LET i == CHOOSE k \in 1..(Len(s) - Len(p) + 1) :
                      /\ SubSeq(s, k, k + Len(p) - 1) = p
                      /\ \A j \in 1..(k - 1) : SubSeq(s, j, j + Len(p) - 1) # p
         IN  SubSeq(s, i + Len(p), Len(s))
    ELSE <<>>

(***************************************************************************)
(* walk.__init__                                                           *)
(***************************************************************************)
\* `directory` as _walk receives it: the descriptor when one is used
UsesFd == directory.kind = "fd" \/ HAVE_FWALK

RECURSIVE StripSep(_)
StripSep(d) == IF EndsWith(d, <<sep>>) THEN StripSep(SubSeq(d, 1, Len(d) - 1)) ELSE d

\* The top directory handed to os.walk / os.fwalk
WalkTop == IF UsesFd THEN dot ELSE StripSep(directory.str)

prefix == WalkTop \o <<sep>>

NoGen == [at |-> "none", reported |-> {}, walk |-> NoWalk, dirpath |-> <<>>,
          dirfd |-> NoFd, children |-> <<>>, ci |-> 0,
          intermediates_reported |-> FALSE, end_offset |-> 0]

Construct ==
    /\ state = "new"
    /\ IF directory.kind = "fd" /\ ~HAVE_FWALK
       THEN /\ state' = "failed"
            /\ init_err' = NotImplementedError
            /\ UNCHANGED <<matcher, close_fd, gen, fds>>
       ELSE LET opened == directory.kind = "path" /\ HAVE_FWALK
                table  == IF opened THEN OsOpen(fds, "driver") ELSE fds
                r      == matcher_from_spec(match_spec, period_special, recursive)
            IN  /\ fds' = table
                /\ close_fd' = IF opened THEN Len(table) ELSE NoFd
                /\ IF r.err # NoError
                   THEN /\ state' = "failed"
                        /\ init_err' = r.err
                        /\ UNCHANGED <<matcher, gen>>
                   ELSE /\ state' = "open"
                        /\ init_err' = NoError
                        /\ matcher' = r.m
                        /\ gen' = [NoGen EXCEPT !.at = "created"]
    /\ UNCHANGED <<inputs, emitted, last, errors, ncloses, call>>

(***************************************************************************)
(* walk._walk, the generator.  gen.at is where the frame is suspended:     *)
(*   "created"  not started                                                *)
(*   "root"     at the yield of the root entry (before the try block)      *)
(*   "interm"   at the yield of a synthesized directory (in the try block) *)
(*   "node"     at the yield of a reported child (in the try block)        *)
(*   "finished" returned, raised or closed                                 *)
(* A run of the generator is a record: the frame, the descriptor table and *)
(* _close_fd as the run left them, and how it ended: `out` is the entry    *)
(* yielded, `err` the exception raised, neither of them on StopIteration.  *)
(***************************************************************************)
NoEntry == [type |-> "None"]

FSNodeEntry(type, path, relpath, name, parentfd) ==
    [type |-> type, path |-> path, relpath |-> relpath, name |-> name,
     parentfd |-> parentfd]

Yield(r, at, entry) == [r EXCEPT !.g.at = at, !.out = entry]

\* A finally block that closes the root descriptor and keeps _close_fd
FinallyKeepsCloseFd(r, err) ==
    LET table == WalkCloseLevels(r.g.walk.stack, r.fds)
    IN  [g        |-> [r.g EXCEPT !.at = "finished", !.walk.stack = <<>>],
         fds      |-> IF r.close_fd # NoFd THEN OsClose(table, r.close_fd) ELSE table,
         close_fd |-> r.close_fd,
         out      |-> NoEntry,
         err      |-> err]

\* A finally block without walk_iter.close()
FinallyLeavesLevels(r, err) ==
    [g        |-> [r.g EXCEPT !.at = "finished"],
     fds      |-> IF r.close_fd # NoFd THEN OsClose(r.fds, r.close_fd) ELSE r.fds,
     close_fd |-> NoFd,
     out      |-> NoEntry,
     err      |-> err]

\* A finally block that also closes the descriptor the walk was given
FinallyClosesDirectory(r, err) ==
    LET table  == WalkCloseLevels(r.g.walk.stack, r.fds)
        table2 == IF r.close_fd # NoFd THEN OsClose(table, r.close_fd) ELSE table
    IN  [g        |-> [r.g EXCEPT !.at = "finished", !.walk.stack = <<>>],
         fds      |-> IF directory.kind = "fd"
                      THEN OsClose(table2, directory.fd) ELSE table2,
         close_fd |-> NoFd,
         out      |-> NoEntry,
         err      |-> err]

\* The finally block of _walk, reached by an exception, by GeneratorExit
\* or by the end of the walk
Finally(r, err) ==
    LET table == WalkCloseLevels(r.g.walk.stack, r.fds)
    IN  [g        |-> [r.g EXCEPT !.at = "finished", !.walk.stack = <<>>],
         fds      |-> IF r.close_fd # NoFd THEN OsClose(table, r.close_fd) ELSE table,
         close_fd |-> NoFd,
         out      |-> NoEntry,
         err      |-> err]

\* dirnames, then filenames
join_dirs_and_files(dirnames, filenames) ==
    [i \in 1..Len(dirnames) |-> [name |-> dirnames[i], is_dir |-> TRUE]]
    \o [i \in 1..Len(filenames) |-> [name |-> filenames[i], is_dir |-> FALSE]]

\* A reported directory that is not added to reported_directories
YieldNodeUnrecorded(r) ==
    LET child    == r.g.children[r.g.ci]
        filepath == PathJoin(r.g.dirpath, child.name)
    IN  Yield(r, "node",
              FSNodeEntry(IF child.is_dir THEN "DIRECTORY" ELSE "FILE",
                          prefix \o filepath, filepath, child.name, r.g.dirfd))

\* Report the target file or directory
YieldNode(r) ==
    LET child    == r.g.children[r.g.ci]
        filepath == PathJoin(r.g.dirpath, child.name)
    IN  IF child.is_dir
        THEN Yield([r EXCEPT !.g.reported = @ \cup {filepath}], "node",
                   FSNodeEntry("DIRECTORY", prefix \o filepath, filepath,
                               child.name, r.g.dirfd))
        ELSE Yield(r, "node",
                   FSNodeEntry("FILE", prefix \o filepath, filepath,
                               child.name, r.g.dirfd))

\* The loop over end_offset stopping one directory early: the directory the
\* child lies in is not synthesized
RECURSIVE IntermediatesShort(_)
IntermediatesShort(r) ==
    LET parts == Split(r.g.dirpath)
    IN  IF r.g.end_offset >= Len(parts) - 1
        THEN YieldNode([r EXCEPT !.g.intermediates_reported = TRUE])
        ELSE LET parent_dirpath == Join(SubSeq(parts, 1, r.g.end_offset + 1))
             IN  IF parent_dirpath \notin r.g.reported
                 THEN Yield([r EXCEPT !.g.reported = @ \cup {parent_dirpath}],
                            "interm",
                            FSNodeEntry("DIRECTORY", prefix \o parent_dirpath,
                                        parent_dirpath,
                                        parts[r.g.end_offset + 1], NoFd))
                 ELSE IntermediatesShort([r EXCEPT !.g.end_offset = @ + 1])

\* The loop over end_offset: one entry per containing directory that has
\* not been reported yet
RECURSIVE Intermediates(_)
Intermediates(r) ==
    LET parts == Split(r.g.dirpath)
    IN  IF r.g.end_offset >= Len(parts)
        THEN YieldNode([r EXCEPT !.g.intermediates_reported = TRUE])
        ELSE LET parent_dirpath == Join(SubSeq(parts, 1, r.g.end_offset + 1))
             IN  IF parent_dirpath \notin r.g.reported
                 THEN Yield([r EXCEPT !.g.reported = @ \cup {parent_dirpath}],
                            "interm",
                            FSNodeEntry("DIRECTORY", prefix \o parent_dirpath,
                                        parent_dirpath,
                                        parts[r.g.end_offset + 1], NoFd))
                 ELSE Intermediates([r EXCEPT !.g.end_offset = @ + 1])

\* The loop over the children of one directory, from child gen.ci on, and
\* behind it the loop over walk_iter
RECURSIVE Children(_)
RECURSIVE NextDirectory(_)
\* The loop over the children synthesizing the containing directories
\* whether or not intermediate_dirs is set
ChildrenSynthAlways(r) ==
    IF r.g.ci > Len(r.g.children) THEN NextDirectory(r)
    ELSE LET child    == r.g.children[r.g.ci]
             filepath == PathJoin(r.g.dirpath, child.name)
             descend  == IF child.is_dir THEN should_descend(matcher, filepath)
                         ELSE RTrue
             n        == Len(r.g.walk.stack)
             pruned   == IF descend = RFalse
                         THEN [r EXCEPT !.g.walk.stack[n].dirnames =
                                           ListRemove(@, child.name)]
                         ELSE r
             report   == should_report(matcher, filepath, child.is_dir)
         IN  IF descend \notin {RTrue, RFalse} THEN Finally(r, descend)
             ELSE IF report \notin {RTrue, RFalse} THEN Finally(pruned, report)
             ELSE IF report = RFalse
                  THEN Children([pruned EXCEPT !.g.ci = @ + 1])
             ELSE IF ~pruned.g.intermediates_reported
                  THEN Intermediates([pruned EXCEPT !.g.end_offset = 0])
             ELSE YieldNode(pruned)

Children(r) ==
    IF r.g.ci > Len(r.g.children) THEN NextDirectory(r)
    ELSE LET child    == r.g.children[r.g.ci]
             filepath == PathJoin(r.g.dirpath, child.name)
             descend  == IF child.is_dir THEN should_descend(matcher, filepath)
                         ELSE RTrue
             n        == Len(r.g.walk.stack)
             pruned   == IF descend = RFalse
                         THEN [r EXCEPT !.g.walk.stack[n].dirnames =
                                           ListRemove(@, child.name)]
                         ELSE r
             report   == should_report(matcher, filepath, child.is_dir)
         IN  IF descend \notin {RTrue, RFalse} THEN Finally(r, descend)
             ELSE IF report \notin {RTrue, RFalse} THEN Finally(pruned, report)
             ELSE IF report = RFalse
                  THEN Children([pruned EXCEPT !.g.ci = @ + 1])
             ELSE IF ~pruned.g.intermediates_reported /\ intermediate_dirs
                  THEN Intermediates([pruned EXCEPT !.g.end_offset = 0])
             ELSE YieldNode(pruned)

NextDirectory(r) ==
    LET w == WalkNext(r.g.walk, r.fds, WalkTop, UsesFd)
    IN  IF w.done
        THEN Finally([r EXCEPT !.g.walk = w.walk, !.fds = w.fds], NoError)
        ELSE Children([r EXCEPT
                 !.fds = w.fds,
                 !.g.walk = w.walk,
                 !.g.dirpath = PartitionTail(w.dirpath, prefix),
                 !.g.dirfd = w.dirfd,
                 !.g.intermediates_reported = FALSE,
                 !.g.children =
                     join_dirs_and_files(w.walk.stack[Len(w.walk.stack)].dirnames,
                                         w.filenames),
                 !.g.ci = 1])

\* A generator that takes the first directory from walk_iter before it
\* yields the root entry
ResumeListsFirst(r) ==
    CASE r.g.at = "created" ->
            LET w == WalkNext(r.g.walk, r.fds, WalkTop, UsesFd)
            IN  Yield([r EXCEPT !.g.reported = {<<>>}, !.g.walk = w.walk,
                                !.fds = w.fds],
                      "root",
                      FSNodeEntry("DIRECTORY", SubSeq(prefix, 1, Len(prefix) - 1),
                                  dot, dot, NoFd))
      [] r.g.at = "root" -> NextDirectory(r)
      [] r.g.at = "interm" -> Intermediates([r EXCEPT !.g.end_offset = @ + 1])
      [] r.g.at = "node" -> Children([r EXCEPT !.g.ci = @ + 1])
      [] r.g.at = "finished" -> [r EXCEPT !.out = NoEntry, !.err = NoError]

\* next(self._generator): the generator runs from where it is suspended to
\* its next yield, to its end or to the exception that ends it
Resume(r) ==
    CASE r.g.at = "created" ->
            Yield([r EXCEPT !.g.reported = {<<>>}], "root",
                  FSNodeEntry("DIRECTORY", SubSeq(prefix, 1, Len(prefix) - 1),
                              dot, dot, NoFd))
      [] r.g.at = "root" -> NextDirectory(r)
      [] r.g.at = "interm" -> Intermediates([r EXCEPT !.g.end_offset = @ + 1])
      [] r.g.at = "node" -> Children([r EXCEPT !.g.ci = @ + 1])
      [] r.g.at = "finished" -> [r EXCEPT !.out = NoEntry, !.err = NoError]

\* self._generator.close(): GeneratorExit is raised at the yield where the
\* frame is suspended; only a yield inside the try block runs the finally
GeneratorClose(r) ==
    CASE r.g.at \in {"created", "root"} -> [r EXCEPT !.g.at = "finished"]
      [] r.g.at \in {"interm", "node"} -> Finally(r, NoError)
      [] r.g.at = "finished" -> r

Running == [g |-> gen, fds |-> fds, close_fd |-> close_fd,
            out |-> NoEntry, err |-> NoError]

\* walk.__next__
Pull ==
    /\ state = "open"
    /\ LET r == Resume(Running)
       IN  /\ gen' = r.g
           /\ fds' = r.fds
           /\ close_fd' = r.close_fd
           /\ emitted' = IF r.out # NoEntry THEN Append(emitted, r.out) ELSE emitted
           /\ last' = IF r.out # NoEntry THEN "entry"
                      ELSE IF r.err # NoError THEN r.err
                      ELSE "StopIteration"
           /\ errors' = IF r.err # NoError THEN Append(errors, r.err) ELSE errors
    /\ UNCHANGED <<inputs, state, init_err, matcher, ncloses, call>>

\* walk.close (also walk.__exit__)
Close ==
    /\ state = "open"
    /\ ncloses < MaxCloses
    /\ LET r == GeneratorClose(Running)
       IN  /\ gen' = r.g
           /\ fds' = IF r.close_fd # NoFd THEN OsClose(r.fds, r.close_fd) ELSE r.fds
           /\ close_fd' = NoFd
    /\ last' = "closed"
    /\ ncloses' = ncloses + 1
    /\ UNCHANGED <<inputs, state, init_err, matcher, emitted, errors, call>>

(***************************************************************************)
(* Direct calls of matcher_from_spec and of the matcher's two methods      *)
(***************************************************************************)
NoCall == [op |-> "none"]

\* matcher = matcher_from_spec(match_spec, period_special=..., recursive=...)
BuildMatcher ==
    /\ state = "new"
    /\ LET r == matcher_from_spec(match_spec, period_special, recursive)
       IN  IF r.err # NoError
           THEN /\ state' = "failed"
                /\ init_err' = r.err
                /\ UNCHANGED matcher
           ELSE /\ state' = "built"
                /\ init_err' = NoError
                /\ matcher' = r.m
    /\ UNCHANGED <<inputs, close_fd, gen, fds, emitted, last, errors, ncloses, call>>

\* matcher.should_descend(path).  The methods change nothing, so one call
\* in a behaviour reaches every result a later call could give.
CallShouldDescend(path) ==
    /\ state = "built"
    /\ call = NoCall
    /\ call' = [op |-> "should_descend", path |-> path, is_dir |-> TRUE,
                result |-> should_descend(matcher, path)]
    /\ UNCHANGED <<inputs, state, init_err, matcher, close_fd, gen, fds,
                   emitted, last, errors, ncloses>>

\* matcher.should_report(path, is_dir=is_dir)
CallShouldReport(path, is_dir) ==
    /\ state = "built"
    /\ call = NoCall
    /\ call' = [op |-> "should_report", path |-> path, is_dir |-> is_dir,
                result |-> should_report(matcher, path, is_dir)]
    /\ UNCHANGED <<inputs, state, init_err, matcher, close_fd, gen, fds,
                   emitted, last, errors, ncloses>>

(***************************************************************************)
(* The inputs the model is checked on                                      *)
(***************************************************************************)
\* Sequences over S of length lo..hi
SeqsOf(S, lo, hi) == UNION {[1..n -> S] : n \in lo..hi}

la == <<"a">>
lb == <<"b">>
lc == <<"c">>
lx == <<"x">>
ly == <<"y">>
dota == <<".", "a">>
dotx == <<".", "x">>
hidden == <<".", "h", "i", "d", "d", "e", "n">>
c_txt == <<"c", ".", "t", "x", "t">>
d_txt == <<"d", ".", "t", "x", "t">>
e_txt == <<"e", ".", "t", "x", "t">>
star == <<"*">>
star_txt == <<"*", ".", "t", "x", "t">>

Dir(dirs, files) == [dirs |-> dirs, files |-> files]

\* a/b/c.txt, a/d.txt, .hidden/e.txt
TreeTxt ==
    <<>> :> Dir(<<la, hidden>>, <<>>)
    @@ la :> Dir(<<lb>>, <<d_txt>>)
    @@ Join(<<la, lb>>) :> Dir(<<>>, <<c_txt>>)
    @@ hidden :> Dir(<<>>, <<e_txt>>)

\* the same tree, listed by the file system in the other order
TreeTxtRev == [TreeTxt EXCEPT ![<<>>] = Dir(<<hidden, la>>, <<>>)]

\* x, a/b/x, a/b/c/x, a/b/c/y, a/c/x and the empty directory b
TreeDeep ==
    <<>> :> Dir(<<la, lb>>, <<lx>>)
    @@ la :> Dir(<<lb, lc>>, <<>>)
    @@ Join(<<la, lb>>) :> Dir(<<lc>>, <<lx>>)
    @@ Join(<<la, lb, lc>>) :> Dir(<<>>, <<lx, ly>>)
    @@ Join(<<la, lc>>) :> Dir(<<>>, <<lx>>)
    @@ lb :> Dir(<<>>, <<>>)

\* .x, .a/x, .a/b/.x, a/.a/x
TreeDots ==
    <<>> :> Dir(<<dota, la>>, <<dotx>>)
    @@ dota :> Dir(<<lb>>, <<lx>>)
    @@ Join(<<dota, lb>>) :> Dir(<<>>, <<dotx>>)
    @@ la :> Dir(<<dota>>, <<>>)
    @@ Join(<<la, dota>>) :> Dir(<<>>, <<lx>>)

\* The orders in which os.scandir may list the names of s
Perms(s) ==
    {p \in [1..Len(s) -> {s[i] : i \in 1..Len(s)}] :
        \A i, j \in 1..Len(s) : i # j => p[i] # p[j]}

\* The tree with the directories of ds listed in every order the file
\* system may give: os.walk keeps the order of os.scandir among the
\* directories and among the files of one directory
RECURSIVE OrderingsOver(_, _)
OrderingsOver(t, ds) ==
    IF ds = {} THEN {t}
    ELSE LET d == CHOOSE x \in ds : TRUE
         IN  {[u EXCEPT ![d] = Dir(pd, pf)] :
                 u \in OrderingsOver(t, ds \ {d}),
                 pd \in Perms(t[d].dirs), pf \in Perms(t[d].files)}

Orderings(t) == OrderingsOver(t, DOMAIN t)

Trees == UNION {Orderings(t) : t \in {TreeTxt, TreeDeep, TreeDots}}

\* The directories and the nodes (directories and files) of a tree, as
\* relative paths
DirsOf(t) == DOMAIN t \ {<<>>}
FilesOf(t) == UNION {{PathJoin(d, t[d].files[i]) : i \in 1..Len(t[d].files)} : d \in DOMAIN t}
NodesOf(t) == DirsOf(t) \cup FilesOf(t)

\* Labels glob patterns are generated from: empty (a doubled, leading or
\* trailing separator), ".", "..", literal, wildcard, character class and
\* recursion labels
PatLabels ==
    {<<>>, dot, dot \o dot, la, lx, star, dblstar, <<".", "*">>,
     <<"a", "*", "*">>, <<"?">>,
     <<"[", "a", "]">>, <<"[", "!", "a", "]">>, <<"[", "a", "-", "c", "]">>,
     <<"[", "!", "x", "]", "a">>}

PatternSet ==
    {Join(ls) : ls \in SeqsOf(PatLabels, 1, MaxPatLabels)}
    \cup {Join(<<dblstar, star_txt>>), Join(<<la, star_txt>>),
          Join(<<la, dblstar, lx>>), Join(<<dblstar, la, lx>>),
          Join(<<la, lb, lc, lx>>), Join(<<la, star, lx>>),
          Join(<<dblstar, lc, <<>>>>), Join(<<la, dblstar, <<>>>>)}

\* Paths as the driver hands them to a matcher: normalized and relative
PathLabels == {la, lx, dota}
PathSet == {Join(ls) : ls \in SeqsOf(PathLabels, 1, MaxDepth)}

RegexAtoms == {Lit("a"), Lit("x"), Lit(sep), Star(ANY)}
RegexSet ==
    {Regex(items, end) : items \in SeqsOf(RegexAtoms, 1, 2), end \in BOOLEAN}

\* Matcher instances a caller passes in
InstanceSet ==
    {DUMMY_MATCHER,
     NoRecusionAdapterMatcher(DUMMY_MATCHER),
     MetaMatcher(<<>>),
     UserMatcher({la}, {la, Join(<<la, lx>>)}, {}, {}),
     UserMatcher({la}, {la}, {}, {lx})}

\* Elements collections are built from
ElementSpecs ==
    {SpecNone, SpecStr(Join(<<dblstar, lx>>)), SpecStr(la), SpecStr(<<>>),
     SpecStr(dot \o <<sep>>), SpecStr(<<sep>> \o la),
     SpecRe(Regex(<<Lit("a"), Star(ANY)>>, FALSE)),
     SpecMatcher(NoRecusionAdapterMatcher(DUMMY_MATCHER))}

CollectionSpecs ==
    {SpecList(<<>>)}
    \cup {SpecList(items) : items \in SeqsOf(ElementSpecs, 1, 2)}
    \cup {SpecList(<<e1, SpecList(<<e2>>)>>) : e1, e2 \in ElementSpecs}
    \cup {SpecList(<<SpecList(<<SpecList(<<e1>>)>>)>>) : e1 \in ElementSpecs}

MatchSpecs ==
    {SpecNone}
    \cup {SpecStr(pat) : pat \in PatternSet}
    \cup {SpecRe(re) : re \in RegexSet}
    \cup {SpecMatcher(m) : m \in InstanceSet}
    \cup CollectionSpecs

NoTree == <<>> :> Dir(<<>>, <<>>)
NoDirectory == [kind |-> "none"]

(***************************************************************************)
(* MatchSpec: a matcher is built from a match spec and asked about paths   *)
(***************************************************************************)
MatchInit ==
    /\ match_spec \in MatchSpecs
    /\ period_special \in BOOLEAN
    /\ recursive \in BOOLEAN
    /\ directory = NoDirectory
    /\ tree = NoTree
    /\ intermediate_dirs = TRUE
    /\ HAVE_FWALK = TRUE
    /\ state = "new"
    /\ init_err = NoError
    /\ matcher = NoMatcher
    /\ close_fd = NoFd
    /\ gen = NoGen
    /\ fds = <<>>
    /\ emitted = <<>>
    /\ last = "none"
    /\ errors = <<>>
    /\ ncloses = 0
    /\ call = NoCall

MatchNext ==
    \/ BuildMatcher
    \/ \E path \in PathSet : CallShouldDescend(path)
    \/ \E path \in PathSet, is_dir \in BOOLEAN : CallShouldReport(path, is_dir)

MatchSpec == MatchInit /\ [][MatchNext]_vars

(***************************************************************************)
(* Spec: one traversal, from walk(...) to its end                          *)
(***************************************************************************)
\* The root as the caller names it: a path (with or without a trailing
\* separator) or a descriptor the caller opened
RootStr == <<"r">>

\* Match specs traversals are run with
WalkPatterns ==
    {Join(<<dblstar, star_txt>>), Join(<<dblstar, lx>>), Join(<<la, dblstar>>),
     dblstar, star, Join(<<star, <<>>>>), Join(<<la, lb, lc, lx>>),
     Join(<<la, star, lx>>), Join(<<dblstar, lc, <<>>>>), <<>>,
     <<sep>> \o la, dot \o dot, <<"a", "*", "*">>,
     Join(<<<<"[", "a", "-", "c", "]">>, <<"[", "!", "a", "]">>>>)}

WalkSpecs ==
    {SpecNone, SpecList(<<SpecStr(Join(<<dblstar, star_txt>>))>>),
     SpecList(<<SpecStr(Join(<<la, star>>)), SpecList(<<SpecStr(lx)>>)>>),
     SpecRe(Regex(<<Star(ANY), Lit("x")>>, TRUE)),
     SpecRe(Regex(<<Lit("a"), Lit(sep)>>, FALSE))}
    \cup {SpecStr(pat) : pat \in WalkPatterns}

\* Matchers of the caller's own: any table of decisions over the nodes of
\* the tree, and tables that raise at one decision
TableSpecs(t) ==
    {SpecMatcher(UserMatcher(d, r, {}, {})) :
        d \in SUBSET DirsOf(t), r \in SUBSET NodesOf(t)}

RaisingSpecs(t) ==
    {SpecMatcher(UserMatcher(DirsOf(t), r, {p}, {})) :
        p \in DirsOf(t), r \in {NodesOf(t), FilesOf(t)}}
    \cup {SpecMatcher(UserMatcher(DirsOf(t), r, {}, {p})) :
        p \in NodesOf(t), r \in {NodesOf(t), FilesOf(t)}}

Init ==
    /\ tree \in Trees
    /\ \/ /\ match_spec \in WalkSpecs
          /\ period_special \in BOOLEAN
          /\ recursive \in BOOLEAN
       \/ /\ match_spec \in RaisingSpecs(tree)
          /\ period_special = TRUE
          /\ recursive \in BOOLEAN
       \/ /\ tree \in Orderings(TreeTxt)
          /\ match_spec \in TableSpecs(tree)
          /\ period_special = TRUE
          /\ recursive = TRUE
    /\ intermediate_dirs \in BOOLEAN
    /\ HAVE_FWALK \in BOOLEAN
    /\ \/ /\ directory \in {[kind |-> "path", str |-> RootStr],
                            [kind |-> "path", str |-> RootStr \o <<sep>>]}
          /\ fds = <<>>
       \/ /\ fds = OsOpen(<<>>, "caller")
          /\ directory = [kind |-> "fd", fd |-> Len(fds)]
    /\ state = "new"
    /\ init_err = NoError
    /\ matcher = NoMatcher
    /\ close_fd = NoFd
    /\ gen = NoGen
    /\ emitted = <<>>
    /\ last = "none"
    /\ errors = <<>>
    /\ ncloses = 0
    /\ call = NoCall

Next ==
    \/ Construct
    \/ Pull
    \/ Close

Spec == Init /\ [][Next]_vars

(***************************************************************************)
(* Properties of the matchers (checked under MatchSpec)                    *)
(***************************************************************************)
Labels(path) == Split(path)

\* The proper ancestor directories of a path, the root excluded
ProperAncestors(path) ==
    {Join(SubSeq(Labels(path), 1, k)) : k \in 1..(Len(Labels(path)) - 1)}

\* Some label of the string starts with "."
HasDotLabel(s) == \E i \in 1..Len(Labels(s)) : StartsWith(Labels(s)[i], dot)

\* A matcher of the classes of this module only
RECURSIVE IsBuiltIn(_)
IsBuiltIn(m) ==
    CASE m.cls \in {"DummyMatcher", "GlobMatcher", "ReMatcher"} -> TRUE
      [] m.cls = "MetaMatcher" ->
            \A i \in 1..Len(m.children) : IsBuiltIn(m.children[i])
      [] m.cls = "NoRecusionAdapterMatcher" -> IsBuiltIn(m.child)
      [] OTHER -> FALSE

\* C1: descend soundness.  Whenever a built-in matcher (Dummy, Glob, Re,
\* Meta, NoRecursion adapter, or a composition of them) reports a path,
\* should_descend is true for every proper ancestor directory of that path.
DescendSound ==
    (/\ state = "built"
     /\ IsBuiltIn(matcher)
     /\ call.op = "should_report"
     /\ call.result = RTrue)
    => \A d \in ProperAncestors(call.path) : should_descend(matcher, d) = RTrue

\* Every GlobMatcher inside the matcher kept at least one pattern label
RECURSIVE KeepsLabels(_)
KeepsLabels(m) ==
    CASE m.cls = "GlobMatcher" -> Len(m.pat) >= 1
      [] m.cls = "MetaMatcher" ->
            \A i \in 1..Len(m.children) : KeepsLabels(m.children[i])
      [] m.cls = "NoRecusionAdapterMatcher" -> KeepsLabels(m.child)
      [] OTHER -> TRUE

\* The same statement for the matchers none of whose patterns lost all its
\* labels
DescendSoundButEmpty ==
    (/\ state = "built"
     /\ IsBuiltIn(matcher)
     /\ KeepsLabels(matcher)
     /\ call.op = "should_report"
     /\ call.result = RTrue)
    => \A d \in ProperAncestors(call.path) : should_descend(matcher, d) = RTrue

\* A glob matcher that refuses some directory reports a path three labels
\* deep, so the directories above it had to be granted
DescendSoundWitness ==
    /\ state = "built"
    /\ matcher.cls = "GlobMatcher"
    /\ call.op = "should_report"
    /\ call.result = RTrue
    /\ Len(Labels(call.path)) = 3
    /\ \E q \in PathSet : should_descend(matcher, q) = RFalse

\* C6: dot-suppression.  With period_special set, a glob pattern none of
\* whose labels starts with "." never reports a path one of whose labels
\* starts with ".".
DotSuppressed ==
    (/\ state = "built"
     /\ match_spec.kind = "str"
     /\ recursive
     /\ period_special
     /\ ~HasDotLabel(match_spec.pat)
     /\ call.op = "should_report"
     /\ HasDotLabel(call.path))
    => call.result # RTrue

\* re.fullmatch: the whole string has to match
ReFullMatch(re, s) == ReMatchFrom(re.items, 1, s, 1, TRUE)

\* C7: ReMatcher.should_report(p, is_dir) is true exactly when the whole of
\* p, followed by a separator for a directory, matches the expression.
ReportIffFullMatch ==
    (/\ state = "built"
     /\ matcher.cls = "ReMatcher"
     /\ call.op = "should_report")
    => call.result =
         PyBool(ReFullMatch(matcher.pat,
                            call.path \o (IF call.is_dir THEN <<sep>> ELSE <<>>)))

\* What the normalizer is to return for recursive=True: absent gives the
\* match-everything matcher, a pattern a GlobMatcher, a regex a ReMatcher, a
\* collection a MetaMatcher over its normalized elements in order, a
\* matcher instance itself
RECURSIVE Normalized(_, _)
Normalized(spec, ps) ==
    CASE spec.kind = "None" -> [cls |-> "DummyMatcher"]
      [] spec.kind = "str" -> GlobMatcher(spec.pat, ps).m
      [] spec.kind = "re" -> [cls |-> "ReMatcher", pat |-> spec.re]
      [] spec.kind = "Iterable" ->
            [cls |-> "MetaMatcher",
             children |-> [i \in 1..Len(spec.items) |-> Normalized(spec.items[i], ps)]]
      [] spec.kind = "Matcher" -> spec.m

RECURSIVE SumSeq(_)
SumSeq(ns) == IF Len(ns) = 0 THEN 0 ELSE Head(ns) + SumSeq(Tail(ns))

\* The number of NoRecursion adapters in a matcher
RECURSIVE Adapters(_)
Adapters(m) ==
    CASE m.cls = "NoRecusionAdapterMatcher" -> 1 + Adapters(m.child)
      [] m.cls = "MetaMatcher" ->
            SumSeq([i \in 1..Len(m.children) |-> Adapters(m.children[i])])
      [] OTHER -> 0

\* The number of NoRecursion adapters in the matcher instances of a spec
RECURSIVE GivenAdapters(_)
GivenAdapters(spec) ==
    CASE spec.kind = "Matcher" -> Adapters(spec.m)
      [] spec.kind = "Iterable" ->
            SumSeq([i \in 1..Len(spec.items) |-> GivenAdapters(spec.items[i])])
      [] OTHER -> 0

\* C10: the spec normalizer.  With recursive=True the result is the
\* normalized form of the spec; with recursive=False it is one NoRecursion
\* adapter around that same normalized form, and no other adapter has been
\* created anywhere inside it.
NormalizerShape ==
    state = "built" =>
        /\ recursive => matcher = Normalized(match_spec, period_special)
        /\ ~recursive =>
              /\ matcher.cls = "NoRecusionAdapterMatcher"
              /\ matcher.child = Normalized(match_spec, period_special)
              /\ Adapters(matcher) = 1 + GivenAdapters(match_spec)

\* A collection holding a collection was normalized with recursive=False
NormalizerShapeWitness ==
    /\ state = "built"
    /\ ~recursive
    /\ match_spec.kind = "Iterable"
    /\ \E i \in 1..Len(match_spec.items) : match_spec.items[i].kind = "Iterable"
    /\ matcher.child.cls = "MetaMatcher"
    /\ Len(matcher.child.children) = 2

(***************************************************************************)
(* Properties of the traversal (checked under Spec)                        *)
(***************************************************************************)
RelPaths(es) == [i \in 1..Len(es) |-> es[i].relpath]

IsDirEntry(e) == e.type = "DIRECTORY"

\* The generator has ended: by exhaustion, by an exception or by close()
Ended == state = "open" /\ gen.at = "finished"

\* The walk ran to its end by pulls alone and raised nothing
Exhausted == Ended /\ ncloses = 0 /\ errors = <<>>

\* Every descriptor the driver or the walk opened is closed, exactly once
AllReleased(table) ==
    \A fd \in 1..Len(table) :
        table[fd].owner # "caller" => ~table[fd].open /\ table[fd].closes = 1

Decided(result) == result \in {RTrue, RFalse}

\* C2: with intermediate_dirs, every emitted entry other than the root comes
\* after a DIRECTORY entry for the root and for each of its proper ancestor
\* directories.
AncestorsFirst ==
    intermediate_dirs =>
        \A i \in 1..Len(emitted) :
            emitted[i].relpath # dot =>
                /\ \E j \in 1..(i - 1) :
                       IsDirEntry(emitted[j]) /\ emitted[j].relpath = dot
                /\ \A d \in ProperAncestors(emitted[i].relpath) :
                       \E j \in 1..(i - 1) :
                           IsDirEntry(emitted[j]) /\ emitted[j].relpath = d

\* An entry four labels deep was emitted below a directory the matcher does
\* not report
AncestorsFirstWitness ==
    /\ intermediate_dirs
    /\ state = "open"
    /\ \E i \in 1..Len(emitted) :
           /\ Len(Labels(emitted[i].relpath)) = 4
           /\ \E d \in ProperAncestors(emitted[i].relpath) :
                  should_report(matcher, d, TRUE) = RFalse

\* C3: no directory is emitted twice, and once anything has been emitted
\* the root has been emitted exactly once.
NoDirectoryTwice ==
    /\ \A i, j \in 1..Len(emitted) :
           (i < j /\ IsDirEntry(emitted[i]) /\ IsDirEntry(emitted[j]))
           => emitted[i].relpath # emitted[j].relpath
    /\ Len(emitted) >= 1 =>
           Cardinality({i \in 1..Len(emitted) : emitted[i].relpath = dot}) = 1

\* A directory the matcher does not report has entries at two depths below
\* it, each of which needs it as an ancestor
NoDirectoryTwiceWitness ==
    /\ state = "open"
    /\ intermediate_dirs
    /\ \E i, j, k \in 1..Len(emitted) :
           /\ IsDirEntry(emitted[i])
           /\ should_report(matcher, emitted[i].relpath, TRUE) = RFalse
           /\ emitted[i].relpath \in ProperAncestors(emitted[j].relpath)
           /\ emitted[i].relpath \in ProperAncestors(emitted[k].relpath)
           /\ ~IsDirEntry(emitted[j])
           /\ ~IsDirEntry(emitted[k])
           /\ Len(Labels(emitted[j].relpath)) < Len(Labels(emitted[k].relpath))

\* The scenario of C4: a/b/c.txt, a/d.txt and .hidden/e.txt, match spec
\* ["**/*.txt"], period_special on, the other options at their defaults
TxtScenario ==
    /\ tree \in {TreeTxt, TreeTxtRev}
    /\ match_spec = SpecList(<<SpecStr(Join(<<dblstar, star_txt>>))>>)
    /\ period_special
    /\ recursive
    /\ intermediate_dirs

NeverHidden ==
    \A i \in 1..Len(emitted) :
        emitted[i].relpath \notin {hidden, Join(<<hidden, e_txt>>)}

\* C4 as claimed: the entries are ".", "a", "a/b", "a/b/c.txt", "a/d.txt" in
\* that order, and nothing of .hidden is emitted.
TxtOrderClaimed ==
    TxtScenario =>
        /\ NeverHidden
        /\ Exhausted =>
              RelPaths(emitted) =
                  <<dot, la, Join(<<la, lb>>), Join(<<la, lb, c_txt>>),
                    Join(<<la, d_txt>>)>>

\* C4 as amended: the entries are ".", "a", "a/d.txt", "a/b", "a/b/c.txt" in
\* that order ("a" and "a/b" synthesized), and nothing of .hidden is emitted.
TxtOrder ==
    TxtScenario =>
        /\ NeverHidden
        /\ Exhausted =>
              /\ RelPaths(emitted) =
                     <<dot, la, Join(<<la, d_txt>>), Join(<<la, lb>>),
                       Join(<<la, lb, c_txt>>)>>
              /\ \A i \in {2, 4} :
                     IsDirEntry(emitted[i]) /\ emitted[i].parentfd = NoFd

TxtOrderWitness == TxtScenario /\ Exhausted /\ Len(emitted) = 5

\* Once the traversal has ended, the descriptors are released; no
\* descriptor is ever closed twice; every close() ends the traversal
ReleasedWhenEnded ==
    /\ \A fd \in 1..Len(fds) : fds[fd].closes <= 1
    /\ Ended => AllReleased(fds) /\ close_fd = NoFd
    /\ ncloses >= 1 => Ended

\* A close() on a traversal that has ended changes nothing
CloseOfEndedChangesNothing ==
    (Ended /\ ncloses' > ncloses)
    => /\ fds' = fds
       /\ gen' = gen
       /\ close_fd' = close_fd
       /\ emitted' = emitted
       /\ errors' = errors
       /\ last' = "closed"

\* C5: however a traversal ends (close() before the first pull, after the
\* root entry, in the middle of the walk, or exhaustion), the root
\* descriptor the driver opened and the descriptors of the walk's levels
\* are closed, each exactly once, and a further close() changes nothing.
DescriptorsReleased ==
    []ReleasedWhenEnded /\ [][CloseOfEndedChangesNothing]_vars

\* close() in the middle of a walk over descriptors: the driver's root
\* descriptor and at least two levels had been opened
DescriptorsReleasedWitness ==
    /\ Ended
    /\ ncloses = 2
    /\ errors = <<>>
    /\ directory.kind = "path"
    /\ Len(fds) >= 3
    /\ gen.ci <= Len(gen.children)
    /\ AllReleased(fds)

\* C8: with recursive=False the matcher is the adapter; it refuses descent
\* everywhere and reports no path with a separator; the walk enumerates the
\* root only; every entry but the root is a child of the root that the
\* wrapped matcher reports.
TopLevelOnly ==
    (state = "open" /\ ~recursive) =>
        /\ matcher.cls = "NoRecusionAdapterMatcher"
        /\ \A p \in NodesOf(tree) :
               /\ should_descend(matcher, p) = RFalse
               /\ HasChar(p, sep) =>
                      should_report(matcher, p, p \in DirsOf(tree)) = RFalse
        /\ \A k \in 1..Len(gen.walk.stack) : gen.walk.stack[k].rel = <<>>
        /\ gen.dirpath = <<>>
        /\ \A i \in 1..Len(emitted) :
               emitted[i].relpath # dot =>
                   /\ ~HasChar(emitted[i].relpath, sep)
                   /\ should_report(matcher.child, emitted[i].relpath,
                                    IsDirEntry(emitted[i])) = RTrue

\* A walk with recursive=False ended with entries beside the root although
\* the wrapped matcher would descend into a directory it was shown
TopLevelOnlyWitness ==
    /\ Exhausted
    /\ ~recursive
    /\ Len(emitted) >= 3
    /\ \E i \in 1..Len(emitted) :
           /\ IsDirEntry(emitted[i])
           /\ emitted[i].relpath # dot
           /\ should_descend(matcher.child, emitted[i].relpath) = RTrue

\* No emitted entry is one the matcher raises on; a walk that ran to its
\* end without an exception met no node the matcher raises on
NothingOfRaisingChild ==
    /\ \A i \in 1..Len(emitted) :
           emitted[i].relpath # dot =>
               /\ Decided(should_report(matcher, emitted[i].relpath,
                                        IsDirEntry(emitted[i])))
               /\ IsDirEntry(emitted[i]) =>
                      Decided(should_descend(matcher, emitted[i].relpath))
    /\ Exhausted =>
           \A p \in NodesOf(tree) :
               (\A d \in ProperAncestors(p) : should_descend(matcher, d) = RTrue)
               => /\ Decided(should_report(matcher, p, p \in DirsOf(tree)))
                  /\ p \in DirsOf(tree) => Decided(should_descend(matcher, p))
    /\ Len(errors) <= 1
    /\ errors # <<>> => Ended /\ AllReleased(fds) /\ close_fd = NoFd

\* The pull at which the matcher raises gives the consumer that exception
\* and no entry, and ends the generator with everything released; after
\* it no pull gives an entry
RaisingPull ==
    /\ Len(errors') > Len(errors) =>
           /\ emitted' = emitted
           /\ last' = errors'[Len(errors')]
           /\ gen'.at = "finished"
           /\ AllReleased(fds')
           /\ close_fd' = NoFd
           /\ gen'.ci \in 1..Len(gen'.children)
           /\ LET child == gen'.children[gen'.ci]
                  path  == PathJoin(gen'.dirpath, child.name)
              IN  \/ child.is_dir /\ should_descend(matcher, path) = last'
                  \/ should_report(matcher, path, child.is_dir) = last'
    /\ errors # <<>> =>
           /\ emitted' = emitted
           /\ errors' = errors
           /\ last' \in {"StopIteration", "closed"}

\* C9: a matcher that raises while a child is decided ends the traversal:
\* the exception reaches the consumer at that pull, nothing is emitted for
\* that child, the walk's descriptors and the root descriptor are released,
\* the entries emitted before stay, and later pulls give no entry.
MatcherErrorPropagates ==
    []NothingOfRaisingChild /\ [][RaisingPull]_vars

\* After three entries the matcher raised, over descriptors, and the
\* consumer pulled again
MatcherErrorPropagatesWitness ==
    /\ errors = <<MatcherError>>
    /\ Len(emitted) >= 3
    /\ last = "StopIteration"
    /\ directory.kind = "path"
    /\ Len(fds) >= 3

(***************************************************************************)
(* Further properties of the traversal (checked under Spec)                *)
(***************************************************************************)
\* The root entry: a DIRECTORY with relpath ".", name "." and no parent
\* descriptor
IsRootEntry(e) ==
    /\ e.type = "DIRECTORY"
    /\ e.relpath = dot
    /\ e.name = dot
    /\ e.parentfd = NoFd

\* The matcher is asked only about the children of a directory walk_iter
\* has listed, so nothing has been asked while walk_iter has not started
NothingListed ==
    /\ ~gen.walk.started
    /\ gen.walk.stack = <<>>
    /\ gen.children = <<>>
    /\ \A fd \in 1..Len(fds) : fds[fd].owner # "walk"

\* C11: the first entry of every traversal is the root entry, and when it
\* is handed out no directory has been listed and so the matcher has not
\* been asked about anything, whatever the match spec and with or without
\* recursion.
RootEntryFirst ==
    /\ Len(emitted) >= 1 => IsRootEntry(emitted[1])
    /\ (state = "open" /\ gen.at \in {"created", "root"}) => NothingListed
    /\ (state = "open" /\ gen.at = "root") => Len(emitted) = 1 /\ errors = <<>>
    /\ (state = "open" /\ gen.at \in {"interm", "node"}) => Len(emitted) >= 2

\* A traversal with recursive=False whose matcher reports nothing ran to
\* its end: the root entry is all it gave
RootEntryFirstWitness ==
    /\ Exhausted
    /\ ~recursive
    /\ match_spec.kind = "Iterable"
    /\ Len(emitted) = 1
    /\ IsRootEntry(emitted[1])
    /\ last = "StopIteration"

(***************************************************************************)
(* Further properties of the matchers (checked under MatchSpec)            *)
(***************************************************************************)
\* What the children of a MetaMatcher answer to the call made on it
ChildResults(m, c) ==
    [i \in 1..Len(m.children) |->
        IF c.op = "should_descend" THEN should_descend(m.children[i], c.path)
        ELSE should_report(m.children[i], c.path, c.is_dir)]

\* C12: should_report and should_descend of a MetaMatcher are the logical
\* OR of what its children answer, and both are false for an empty list.  A
\* child that raises gives no answer: the call then gives True when a child
\* before it said True, and that exception otherwise.
MetaIsOr ==
    (state = "built" /\ matcher.cls = "MetaMatcher" /\ call.op # "none") =>
        LET rs == ChildResults(matcher, call)
        IN  /\ (\A i \in 1..Len(rs) : Decided(rs[i]))
                  => call.result = PyBool(\E i \in 1..Len(rs) : rs[i] = RTrue)
            /\ Len(rs) = 0 => call.result = RFalse
            /\ \A i \in 1..Len(rs) :
                   (~Decided(rs[i]) /\ \A j \in 1..(i - 1) : Decided(rs[j]))
                   => call.result =
                         IF \E j \in 1..(i - 1) : rs[j] = RTrue THEN RTrue
                         ELSE rs[i]

\* A MetaMatcher over two children was asked to report a path the first
\* child refuses and the second reports
MetaIsOrWitness ==
    /\ state = "built"
    /\ matcher.cls = "MetaMatcher"
    /\ call.op = "should_report"
    /\ ChildResults(matcher, call) = <<RFalse, RTrue>>
    /\ call.result = RTrue

\* The match spec is one glob pattern and the matcher is its GlobMatcher
GlobBuilt ==
    /\ state = "built"
    /\ match_spec.kind = "str"
    /\ recursive
    /\ matcher.cls = "GlobMatcher"

\* C13: a GlobMatcher whose pattern ends with a separator reports no file:
\* should_report(p, is_dir=False) is false for every path.
DirOnlyNeverFile ==
    (/\ GlobBuilt
     /\ EndsWith(match_spec.pat, <<sep>>)
     /\ call.op = "should_report"
     /\ ~call.is_dir)
    => call.result = RFalse

\* The pattern, its trailing separator aside, is the path itself, which is
\* reported as a directory and refused as a file
DirOnlyNeverFileWitness ==
    /\ GlobBuilt
    /\ call.op = "should_report"
    /\ match_spec.pat = call.path \o <<sep>>
    /\ ~call.is_dir
    /\ call.result = RFalse
    /\ should_report(matcher, call.path, TRUE) = RTrue

(***************************************************************************)
(* Pruning, completeness and synthesis (checked under Spec)                *)
(***************************************************************************)
\* should_descend is true for every proper ancestor directory of the path
Reachable(p) ==
    \A d \in ProperAncestors(p) : should_descend(matcher, d) = RTrue

\* The walk enters this directory: it is reachable and descent is granted
Entered(d) == Reachable(d) /\ should_descend(matcher, d) = RTrue

\* How often a path has been emitted
TimesEmitted(p) == Cardinality({i \in 1..Len(emitted) : emitted[i].relpath = p})

\* The descriptors os.fwalk has opened, one per directory it listed
LevelsOpened == Cardinality({fd \in 1..Len(fds) : fds[fd].owner = "walk"})

\* C14: a directory should_descend refuses is never listed and nothing
\* beneath it is emitted; in a traversal run to its end a file is emitted,
\* once, exactly when should_report holds for it and should_descend for
\* every directory above it, and a refused directory is itself emitted
\* when should_report holds for it.
PrunedAndComplete ==
    state = "open" =>
        /\ \A k \in 1..Len(gen.walk.stack) :
               gen.walk.stack[k].rel # <<>> => Entered(gen.walk.stack[k].rel)
        /\ \A i \in 1..Len(emitted) :
               emitted[i].relpath # dot => Reachable(emitted[i].relpath)
        /\ UsesFd =>
               LevelsOpened <= 1 + Cardinality({d \in DirsOf(tree) : Entered(d)})
        /\ Exhausted =>
               /\ \A p \in FilesOf(tree) :
                      TimesEmitted(p) =
                          IF should_report(matcher, p, FALSE) = RTrue /\ Reachable(p)
                          THEN 1 ELSE 0
               /\ \A d \in DirsOf(tree) :
                      (/\ should_descend(matcher, d) = RFalse
                       /\ should_report(matcher, d, TRUE) = RTrue
                       /\ Reachable(d))
                      => TimesEmitted(d) = 1
               /\ UsesFd =>
                      LevelsOpened = 1 + Cardinality({d \in DirsOf(tree) : Entered(d)})

\* A traversal ran to its end: a directory the matcher reports and refuses
\* to descend into was emitted, a file beneath it that the matcher would
\* report was not, and a file two labels deep elsewhere was
PrunedAndCompleteWitness ==
    /\ Exhausted
    /\ \E d \in DirsOf(tree), p \in FilesOf(tree) :
           /\ should_descend(matcher, d) = RFalse
           /\ TimesEmitted(d) = 1
           /\ d \in ProperAncestors(p)
           /\ should_report(matcher, p, FALSE) = RTrue
           /\ TimesEmitted(p) = 0
    /\ \E q \in FilesOf(tree) : Len(Labels(q)) = 2 /\ TimesEmitted(q) = 1

(***************************************************************************)
(* The recursion marker (checked under MatchSpec)                          *)
(***************************************************************************)
\* The labels of a pattern that GlobMatcher keeps: empty and "." labels
\* are dropped
RECURSIVE KeptLabels(_)
KeptLabels(labels) ==
    IF Len(labels) = 0 THEN <<>>
    ELSE IF Len(Head(labels)) < 1 \/ Head(labels) = dot
         THEN KeptLabels(Tail(labels))
         ELSE <<Head(labels)>> \o KeptLabels(Tail(labels))

Markers(labels) == {i \in 1..Len(labels) : labels[i] = dblstar}

\* The labels match the concrete pattern labels one by one
LabelsMatch(pls, labels, ps) ==
    /\ Len(pls) = Len(labels)
    /\ \A i \in 1..Len(pls) : ReMatch(CompileLabel(pls[i], ps), labels[i])

\* What "A/**/B matches zero or more labels" asks for: the path is labels
\* matching A, then k >= 0 labels not starting with ".", then labels
\* matching B
ZeroOrMore(pls, labels, ps) ==
    LET m  == CHOOSE i \in Markers(pls) : TRUE
        na == m - 1
        nb == Len(pls) - m
    IN  \E k \in 0..(Len(labels) - na - nb) :
            /\ LabelsMatch(SubSeq(pls, 1, na), SubSeq(labels, 1, na), ps)
            /\ \A i \in (na + 1)..(na + k) : ~StartsWith(labels[i], dot)
            /\ Len(labels) = na + k + nb
            /\ LabelsMatch(SubSeq(pls, m + 1, Len(pls)),
                           SubSeq(labels, na + k + 1, Len(labels)), ps)

\* C15: a recursion marker matches zero or more labels.  For a pattern
\* A/**/B every path of labels matching A, then k >= 0 labels not starting
\* with ".", then labels matching B is reported (a file is not asked of a
\* pattern that ends with a separator), k = 0 under a trailing marker
\* included.
MarkerZeroOrMore ==
    (/\ GlobBuilt
     /\ call.op = "should_report"
     /\ Cardinality(Markers(KeptLabels(Split(match_spec.pat)))) = 1
     /\ call.is_dir \/ ~matcher.dir_only
     /\ ZeroOrMore(KeptLabels(Split(match_spec.pat)), Split(call.path),
                   period_special))
    => call.result = RTrue

\* The same statement with one case left out: the marker is the last label
\* of the pattern and stands for no label
MarkerZeroOrMoreButTrailing ==
    (/\ GlobBuilt
     /\ call.op = "should_report"
     /\ Cardinality(Markers(KeptLabels(Split(match_spec.pat)))) = 1
     /\ call.is_dir \/ ~matcher.dir_only
     /\ ZeroOrMore(KeptLabels(Split(match_spec.pat)), Split(call.path),
                   period_special)
     /\ ~(/\ KeptLabels(Split(match_spec.pat))[Len(KeptLabels(Split(match_spec.pat)))]
                = dblstar
          /\ Len(Split(call.path)) = Len(KeptLabels(Split(match_spec.pat))) - 1))
    => call.result = RTrue

\* C16: the decisions of a GlobMatcher are total.  For every pattern the
\* constructor accepts and every path of at least one label, should_descend
\* and should_report return True or False and raise nothing.
GlobTotal ==
    (GlobBuilt /\ call.op # "none") => Decided(call.result)

\* The same statement for the patterns that keep at least one label
GlobTotalButEmpty ==
    (GlobBuilt /\ call.op # "none" /\ Len(matcher.pat) >= 1)
    => Decided(call.result)

(***************************************************************************)
(* Descriptors at construction and of the caller (checked under Spec)      *)
(***************************************************************************)
\* C17: when walk(...) fails after it has opened the root descriptor, that
\* descriptor is closed before the exception reaches the caller.
FailedConstructReleases ==
    state = "failed" =>
        \A fd \in 1..Len(fds) : fds[fd].owner = "driver" => ~fds[fd].open

\* The matcher reports the directory and the walk gets to it
Reported(d) == should_report(matcher, d, TRUE) = RTrue /\ Reachable(d)

\* Some emitted entry lies beneath the directory
HasEmittedBeneath(d) ==
    \E j \in 1..Len(emitted) : d \in ProperAncestors(emitted[j].relpath)

\* C18: minimal synthesis.  In a traversal run to its end a directory other
\* than the root is emitted exactly when the matcher reports it or
\* intermediate_dirs is set and an emitted entry lies beneath it, and a
\* directory emitted without being reported is followed by such an entry;
\* without intermediate_dirs only reported directories are emitted.
MinimalSynthesis ==
    /\ \A i \in 1..Len(emitted) :
           (IsDirEntry(emitted[i]) /\ emitted[i].relpath # dot)
           => /\ emitted[i].relpath \in DirsOf(tree)
              /\ ~intermediate_dirs => Reported(emitted[i].relpath)
    /\ Exhausted =>
           /\ \A d \in DirsOf(tree) :
                  TimesEmitted(d) >= 1
                  <=> (Reported(d) \/ (intermediate_dirs /\ HasEmittedBeneath(d)))
           /\ \A i \in 1..Len(emitted) :
                  (/\ IsDirEntry(emitted[i])
                   /\ emitted[i].relpath # dot
                   /\ ~Reported(emitted[i].relpath))
                  => \E j \in (i + 1)..Len(emitted) :
                         emitted[i].relpath \in ProperAncestors(emitted[j].relpath)

\* A traversal with intermediate_dirs ran to its end: one directory was
\* emitted although the matcher does not report it, another one that the
\* walk listed was not emitted
MinimalSynthesisWitness ==
    /\ Exhausted
    /\ intermediate_dirs
    /\ \E d1, d2 \in DirsOf(tree) :
           /\ TimesEmitted(d1) = 1
           /\ ~Reported(d1)
           /\ Entered(d2)
           /\ TimesEmitted(d2) = 0

\* C19: a descriptor the caller supplied as the scan root is never closed
\* by the driver, whether the traversal is exhausted, closed at any point
\* or ended by an exception; the driver closes only descriptors that it or
\* the walk opened.
CallerDescriptorKept ==
    /\ \A fd \in 1..Len(fds) :
           fds[fd].owner = "caller" => fds[fd].open /\ fds[fd].closes = 0
    /\ directory.kind = "fd" =>
           /\ directory.fd \in 1..Len(fds)
           /\ fds[directory.fd].owner = "caller"
           /\ close_fd = NoFd

\* A traversal over a descriptor of the caller listed the root and two
\* more directories, was ended by an exception of the matcher and closed
CallerDescriptorKeptWitness ==
    /\ directory.kind = "fd"
    /\ Ended
    /\ errors = <<MatcherError>>
    /\ ncloses >= 1
    /\ Len(fds) >= 4
    /\ fds[directory.fd].open
    /\ \A fd \in 1..Len(fds) : fd # directory.fd => ~fds[fd].open

(***************************************************************************)
(* Descent into dot-directories (checked under MatchSpec)                  *)
(***************************************************************************)
\* The last label of the path starts with "." and only the recursion
\* marker of the pattern can cover it: no label of the pattern starts with
\* ".", so with period_special no concrete label matches it, and it lies at
\* or behind the first marker
DotUnderMarker(pls, labels) ==
    /\ Markers(pls) # {}
    /\ \A i \in 1..Len(pls) : ~StartsWith(pls[i], dot)
    /\ StartsWith(labels[Len(labels)], dot)
    /\ \E m \in Markers(pls) : m <= Len(labels)

\* C20: with period_special, a pattern with a recursion marker does not
\* descend into a directory whose name starts with "." and is covered only
\* by the marker: should_descend is false for it.
NoDescentIntoDotDirs ==
    (/\ GlobBuilt
     /\ period_special
     /\ call.op = "should_descend"
     /\ DotUnderMarker(KeptLabels(Split(match_spec.pat)), Split(call.path)))
    => call.result = RFalse

====
